---- MODULE Spec2Model ----
(***************************************************************************)
(* Medicine Tracker API (backend/server.py, backend/util/                  *)
(* generate_filename.py): the medicine record handlers over the Mongo      *)
(* collection, the prescription upload handler, and the filename helper.   *)
(*                                                                         *)
(* Python strings are modelled as tuples of one-character strings where    *)
(* their characters matter (filenames), and as tagged records where only   *)
(* their shape matters (date strings).  Optional[int] / Optional[str]      *)
(* values carry an explicit None tag.                                      *)
(***************************************************************************)
EXTENDS Integers, Sequences, FiniteSets, TLC

VARIABLES
    medicines,   \* db.medicines: the set of stored documents
    issued,      \* the values uuid.uuid4() has returned so far
    clock,       \* the latest value datetime.now(timezone.utc) has returned
    last,        \* the last completed request and its response
    upd,         \* the update_medicine request in flight (interleaved runs)
    local,       \* LOCAL_UPLOAD_ENABLED
    files,       \* UPLOADS_DIR: file name -> bytes
    drive,       \* drive_service.uploads: the mock's entries
    upLast,      \* the last upload_prescription request and its response
    count,       \* upload requests, successes, local writes, drive calls
    fname,       \* the argument of generate_filename
    out          \* its result (<<>> before the call)

vars == <<medicines, issued, clock, last, upd, local, files, drive, upLast,
          count, fname, out>>

crudVars == <<medicines, clock, last, upd>>
uploadVars == <<local, files, drive, upLast, count>>
nameVars == <<fname, out>>

(***************************************************************************)
(* Bounds and input universes                                              *)
(***************************************************************************)
\* The clock readings a run may see are 0..MaxClock.
MaxClock == 1

\* datetime.max.toordinal(): the last day a datetime can hold.
MaxOrdinal == 3652059

\* The identifiers uuid.uuid4() may return.
Ids == {"u1", "u2"}

\* The upload requests of a run.
MaxUploads == 2

\* The longest filename given to generate_filename.
MaxLen == 4

\* An identifier no record ever carries (a request for an unknown id).
UnknownId == "u0"

(***************************************************************************)
(* Optional values                                                         *)
(***************************************************************************)
NoneInt == [none |-> TRUE, v |-> 0]
SomeInt(n) == [none |-> FALSE, v |-> n]

\* Date strings by shape: None, "", a string that is no ISO-8601 date,
\* "YYYY-MM-DD" and "YYYY-MM-DDT00:00:00", the last two with the proleptic
\* ordinal of their day.
NoneStr == [fmt |-> "None", day |-> 0]
EmptyStr == [fmt |-> "empty", day |-> 0]
BadStr == [fmt |-> "bad", day |-> 0]
DateStr(n) == [fmt |-> "date", day |-> n]
DateTimeStr(n) == [fmt |-> "datetime", day |-> n]

\* Python truthiness of an Optional[int]: None and 0 are falsy.
TruthyInt(x) == ~x.none /\ x.v # 0

\* Python truthiness of an Optional[str]: None and "" are falsy.
TruthyStr(s) == s.fmt \notin {"None", "empty"}

\* datetime.fromisoformat accepts the date-only and the date-time shape.
ParsesIso(s) == s.fmt \in {"date", "datetime"}

(***************************************************************************)
(* calculate_end_date: fromisoformat, + timedelta(days), isoformat.        *)
(* exc is the exception raised ("none" when it returns).                   *)
(***************************************************************************)
calculate_end_date(start_date_str, duration_days) ==
    IF ~ParsesIso(start_date_str)
    THEN [exc |-> "ValueError", val |-> NoneStr]
    ELSE IF start_date_str.day + duration_days < 1
            \/ start_date_str.day + duration_days > MaxOrdinal
         THEN [exc |-> "OverflowError", val |-> NoneStr]
         ELSE [exc |-> "none",
               val |-> DateTimeStr(start_date_str.day + duration_days)]

\* The derivation block without its test of end_date.
ApplyDerivation_IgnoresEndDate(d) ==
    IF TruthyStr(d.start_date) /\ TruthyInt(d.duration_days)
    THEN LET r == calculate_end_date(d.start_date, d.duration_days.v)
         IN  [exc |-> r.exc, dict |-> [d EXCEPT !.end_date = r.val]]
    ELSE [exc |-> "none", dict |-> d]

\* The derivation block shared by create_medicine and update_medicine.
ApplyDerivation(d) ==
    IF TruthyStr(d.start_date) /\ TruthyInt(d.duration_days)
       /\ ~TruthyStr(d.end_date)
    THEN LET r == calculate_end_date(d.start_date, d.duration_days.v)
         IN  [exc |-> r.exc, dict |-> [d EXCEPT !.end_date = r.val]]
    ELSE [exc |-> "none", dict |-> d]

(***************************************************************************)
(* The collection                                                          *)
(***************************************************************************)
Matching(coll, id) == {doc \in coll : doc.id = id}

\* find_one({"id": id}): a matching document, or None.
Found(coll, id) == Matching(coll, id) # {}
FindOne(coll, id) == CHOOSE doc \in Matching(coll, id) : TRUE

\* $set: every field of the update replaces the document's, the rest stay.
SetFields(doc, set) ==
    [f \in DOMAIN doc |-> IF f \in DOMAIN set THEN set[f] ELSE doc[f]]

\* update_one({"id": id}, {"$set": set}): the first match, no upsert.
UpdateOne(coll, id, set) ==
    IF Found(coll, id)
    THEN (coll \ {FindOne(coll, id)}) \cup {SetFields(FindOne(coll, id), set)}
    ELSE coll

\* delete_one with the filter dropped once a match exists.
DeleteOne_DropsAll(coll, id) ==
    IF Found(coll, id) THEN {} ELSE coll

\* delete_one({"id": id}): removes the first match.
DeleteOne(coll, id) ==
    IF Found(coll, id) THEN coll \ {FindOne(coll, id)} ELSE coll

(***************************************************************************)
(* Request bodies (MedicineCreate.model_dump())                            *)
(***************************************************************************)
\* The record-store runs: two identifiers, bodies that differ in the plain
\* fields and in whether the derivation applies.
Bodies ==
    [name : {"n1", "n2"}, duration_days : {NoneInt, SomeInt(2)},
     start_date : {DateStr(10)}, end_date : {NoneStr}]

\* The date runs: one identifier, every shape of the three date fields.
DateIds == {"u1"}
DateBodies ==
    [name : {"n1"}, duration_days : {NoneInt, SomeInt(0), SomeInt(2)},
     start_date : {NoneStr, EmptyStr, BadStr, DateStr(10), DateStr(MaxOrdinal)},
     end_date : {NoneStr, EmptyStr, DateStr(11)}]

NoBody ==
    [name |-> "", duration_days |-> NoneInt, start_date |-> NoneStr,
     end_date |-> NoneStr]

\* datetime.now(timezone.utc): a reading no earlier than the previous one.
Now(t) == t \in clock..MaxClock /\ t <= clock + 1

Response(op, id, body, status, exc) ==
    [op |-> op, id |-> id, body |-> body, status |-> status, exc |-> exc]

NoUpdate == [pc |-> "idle", id |-> UnknownId, body |-> NoBody,
             status |-> 0, exc |-> "none"]

\* The bytes of an upload: their number and what they are.
Bytes(size, data) == [size |-> size, data |-> data]

NoUpload ==
    [filename |-> "", content_type |-> "", content |-> Bytes(0, ""),
     status |-> 0, file_id |-> "", link |-> <<>>]

(***************************************************************************)
(* Handlers, each run to completion                                        *)
(***************************************************************************)
InitStore ==
    /\ medicines = {}
    /\ issued = {}
    /\ clock = 0
    /\ last = Response("none", UnknownId, NoBody, 0, "none")
    /\ upd = NoUpdate

InitUploads ==
    /\ files = <<>>
    /\ drive = {}
    /\ upLast = NoUpload
    /\ count = [requests |-> 0, ok |-> 0, writes |-> 0, calls |-> 0]

InitName == out = <<>>

Init ==
    /\ InitStore
    /\ InitUploads /\ local = FALSE
    /\ InitName /\ fname = <<>>

\* The dict create_medicine stamps before the derivation block.
CreateDict(body, id, t1, t2) ==
    [id |-> id, name |-> body.name, duration_days |-> body.duration_days,
     start_date |-> body.start_date, end_date |-> body.end_date,
     created_at |-> t1, updated_at |-> t2]

create_medicine(body, id, t1, t2) ==
    /\ id \notin issued
    /\ Now(t1)
    /\ t2 \in t1..MaxClock /\ t2 <= t1 + 1
    /\ issued' = issued \cup {id}
    /\ clock' = t2
    /\ LET r == ApplyDerivation(CreateDict(body, id, t1, t2))
       IN  IF r.exc # "none"
           THEN /\ medicines' = medicines
                /\ last' = Response("create", id, body, 500, r.exc)
           ELSE /\ medicines' = medicines \cup {r.dict}
                /\ last' = Response("create", id, body, 200, "none")
    /\ UNCHANGED <<upd, uploadVars, nameVars>>

get_medicine(id) ==
    /\ last' = IF Found(medicines, id)
               THEN Response("get", id, NoBody, 200, "none")
               ELSE Response("get", id, NoBody, 404, "none")
    /\ UNCHANGED <<medicines, issued, clock, upd, uploadVars, nameVars>>

\* The update dict with created_at stamped as create_medicine does.
UpdateDict_StampsCreatedAt(body, t) ==
    [name |-> body.name, duration_days |-> body.duration_days,
     start_date |-> body.start_date, end_date |-> body.end_date,
     created_at |-> t, updated_at |-> t]

\* The dict update_medicine builds before the derivation block.
UpdateDict(body, t) ==
    [name |-> body.name, duration_days |-> body.duration_days,
     start_date |-> body.start_date, end_date |-> body.end_date,
     updated_at |-> t]

update_medicine(id, body, t) ==
    /\ UNCHANGED <<issued, upd, uploadVars, nameVars>>
    /\ IF ~Found(medicines, id)
       THEN /\ last' = Response("update", id, body, 404, "none")
            /\ UNCHANGED <<medicines, clock>>
       ELSE /\ Now(t)
            /\ clock' = t
            /\ LET r == ApplyDerivation(UpdateDict(body, t))
               IN  IF r.exc # "none"
                   THEN /\ medicines' = medicines
                        /\ last' = Response("update", id, body, 500, r.exc)
                   ELSE /\ medicines' = UpdateOne(medicines, id, r.dict)
                        /\ last' = Response("update", id, body, 200, "none")

delete_medicine(id) ==
    /\ medicines' = DeleteOne(medicines, id)
    /\ last' = IF Found(medicines, id)
               THEN Response("delete", id, NoBody, 200, "none")
               ELSE Response("delete", id, NoBody, 404, "none")
    /\ UNCHANGED <<issued, clock, upd, uploadVars, nameVars>>

Create(ids, bodies) ==
    \E body \in bodies, id \in ids, t1, t2 \in 0..MaxClock :
        create_medicine(body, id, t1, t2)
Get(ids) == \E id \in ids \cup {UnknownId} : get_medicine(id)
Update(ids, bodies) ==
    \E id \in ids \cup {UnknownId}, body \in bodies, t \in 0..MaxClock :
        update_medicine(id, body, t)
Delete(ids) == \E id \in ids \cup {UnknownId} : delete_medicine(id)

Next == Create(Ids, Bodies) \/ Get(Ids) \/ Update(Ids, Bodies) \/ Delete(Ids)

Spec == Init /\ [][Next]_vars

NextDates ==
    \/ Create(DateIds, DateBodies)
    \/ Get(DateIds)
    \/ Update(DateIds, DateBodies)
    \/ Delete(DateIds)

SpecDates == Init /\ [][NextDates]_vars

(***************************************************************************)
(* update_medicine interleaved with other requests: each awaited store     *)
(* call is one atomic step, the code between two awaits runs with the      *)
(* call that follows it.                                                   *)
(***************************************************************************)
\* existing = await find_one(...); the 404 when there is none.
UpdateFind(id, body) ==
    /\ upd.pc = "idle"
    /\ upd' = IF Found(medicines, id)
              THEN [NoUpdate EXCEPT !.pc = "found", !.id = id, !.body = body]
              ELSE [NoUpdate EXCEPT !.pc = "done", !.id = id, !.body = body,
                                    !.status = 404]
    /\ UNCHANGED <<medicines, issued, clock, last, uploadVars, nameVars>>

\* model_dump, the stamp, the derivation block, await update_one(...).
UpdateWrite(t) ==
    /\ upd.pc = "found"
    /\ Now(t)
    /\ clock' = t
    /\ LET r == ApplyDerivation(UpdateDict(upd.body, t))
       IN  IF r.exc # "none"
           THEN /\ medicines' = medicines
                /\ upd' = [upd EXCEPT !.pc = "done", !.status = 500,
                                      !.exc = r.exc]
           ELSE /\ medicines' = UpdateOne(medicines, upd.id, r.dict)
                /\ upd' = [upd EXCEPT !.pc = "written"]
    /\ UNCHANGED <<issued, last, uploadVars, nameVars>>

\* updated = await find_one(...); Medicine(**updated) raises TypeError when
\* updated is None.
UpdateReread ==
    /\ upd.pc = "written"
    /\ upd' = IF Found(medicines, upd.id)
              THEN [upd EXCEPT !.pc = "done", !.status = 200]
              ELSE [upd EXCEPT !.pc = "done", !.status = 500,
                               !.exc = "TypeError"]
    /\ UNCHANGED <<medicines, issued, clock, last, uploadVars, nameVars>>

\* The response leaves the server.
UpdateRespond ==
    /\ upd.pc = "done"
    /\ last' = Response("update", upd.id, upd.body, upd.status, upd.exc)
    /\ upd' = NoUpdate
    /\ UNCHANGED <<medicines, issued, clock, uploadVars, nameVars>>

NextConc ==
    \/ Create(Ids, Bodies)
    \/ Get(Ids)
    \/ Delete(Ids)
    \/ \E id \in Ids \cup {UnknownId}, body \in Bodies : UpdateFind(id, body)
    \/ \E t \in 0..MaxClock : UpdateWrite(t)
    \/ UpdateReread
    \/ UpdateRespond

SpecConc == Init /\ [][NextConc]_vars

(***************************************************************************)
(* upload_prescription                                                     *)
(***************************************************************************)
allowed_types == {"image/jpeg", "image/png", "image/jpg", "application/pdf"}
max_size == 50 * 1024 * 1024

\* The two checks with the size tested first.
Validate_SizeFirst(content_type, size) ==
    IF size > max_size THEN 413
    ELSE IF content_type \notin allowed_types THEN 400
    ELSE 200

\* The two checks in the handler's order: the status raised, 200 when both
\* pass.
Validate(content_type, size) ==
    IF content_type \notin allowed_types THEN 400
    ELSE IF size > max_size THEN 413
    ELSE 200

\* open(save_path, "wb").write(file_content): creates or truncates.
WriteFile(dir, name, content) ==
    [f \in DOMAIN dir \cup {name} |-> IF f = name THEN content ELSE dir[f]]

\* The name the handler saves under in UPLOADS_DIR.
SaveName(filename) == filename

\* MockGoogleDriveService.upload_file: one entry under a fresh uuid.
DriveEntry(file_id, filename, content, mimetype) ==
    [file_id |-> file_id, filename |-> filename, size |-> content.size,
     mimetype |-> mimetype]

UploadResponse(filename, content_type, content, status, file_id, link) ==
    [filename |-> filename, content_type |-> content_type,
     content |-> content, status |-> status, file_id |-> file_id,
     link |-> link]

upload_prescription(filename, content_type, content, uuid) ==
    /\ count.requests < MaxUploads
    /\ LET status == Validate(content_type, content.size)
       IN  IF status # 200
           THEN /\ upLast' = UploadResponse(filename, content_type, content,
                                            status, "", <<>>)
                /\ count' = [count EXCEPT !.requests = @ + 1]
                /\ UNCHANGED <<files, drive, issued>>
           ELSE IF local
           THEN /\ files' = WriteFile(files, SaveName(filename), content)
                /\ upLast' = UploadResponse(filename, content_type, content,
                                 200, filename, <<"/uploads/", filename>>)
                /\ count' = [count EXCEPT !.requests = @ + 1, !.ok = @ + 1,
                                          !.writes = @ + 1]
                /\ UNCHANGED <<drive, issued>>
           ELSE /\ uuid \notin issued
                /\ issued' = issued \cup {uuid}
                /\ drive' = drive \cup
                       {DriveEntry(uuid, filename, content, content_type)}
                /\ upLast' = UploadResponse(filename, content_type, content,
                                 200, uuid,
                                 <<"https://drive.google.com/file/d/", uuid,
                                   "/view?usp=sharing">>)
                /\ count' = [count EXCEPT !.requests = @ + 1, !.ok = @ + 1,
                                          !.calls = @ + 1]
                /\ UNCHANGED files
    /\ UNCHANGED <<local, crudVars, nameVars>>

Filenames == {"rx.pdf", "scan.png"}
ContentTypes == allowed_types \cup {"text/plain"}
Contents ==
    {Bytes(1, "b1"), Bytes(1, "b2"), Bytes(max_size, "b1"),
     Bytes(max_size + 1, "b1")}
UploadIds == {"f1", "f2", "f3"}

InitUpload ==
    /\ InitStore
    /\ InitUploads /\ local \in BOOLEAN
    /\ InitName /\ fname = <<>>

NextUpload ==
    \E filename \in Filenames, content_type \in ContentTypes,
       content \in Contents, uuid \in UploadIds :
        upload_prescription(filename, content_type, content, uuid)

SpecUpload == InitUpload /\ [][NextUpload]_vars

(***************************************************************************)
(* generate_filename.  A string is a tuple of one-character strings.       *)
(***************************************************************************)
UpperCase ==
    <<"A", "B", "C", "D", "E", "F", "G", "H", "I", "J", "K", "L",
      "M", "N", "O", "P", "Q", "R", "S", "T", "U", "V", "W", "X",
      "Y", "Z">>
LowerCase ==
    <<"a", "b", "c", "d", "e", "f", "g", "h", "i", "j", "k", "l",
      "m", "n", "o", "p", "q", "r", "s", "t", "u", "v", "w", "x",
      "y", "z">>
Digits == <<"0", "1", "2", "3", "4", "5", "6", "7", "8", "9">>

Range(seq) == {seq[i] : i \in DOMAIN seq}

\* str.lower(), one character at a time.
LowerChar(c) ==
    IF c \in Range(UpperCase)
    THEN LowerCase[CHOOSE i \in DOMAIN UpperCase : UpperCase[i] = c]
    ELSE c
Lower(str) == [i \in DOMAIN str |-> LowerChar(str[i])]

\* str.rfind(c), counted from 1: 0 when c does not occur.
RFind(str, c) ==
    IF \E i \in DOMAIN str : str[i] = c
    THEN CHOOSE i \in DOMAIN str :
             str[i] = c /\ \A j \in DOMAIN str : str[j] = c => j <= i
    ELSE 0

\* The loop of genericpath._splitext that skips the leading dots of the
\* last path component: TRUE when it meets another character before the dot.
RECURSIVE SkipLeadingDots(_, _, _)
SkipLeadingDots(p, filenameIndex, dotIndex) ==
    IF filenameIndex >= dotIndex THEN FALSE
    ELSE IF p[filenameIndex] # "." THEN TRUE
    ELSE SkipLeadingDots(p, filenameIndex + 1, dotIndex)

\* os.path.splitext(p) (posixpath): <<root, ext>>.
splitext(p) ==
    LET sepIndex == RFind(p, "/")
        dotIndex == RFind(p, ".")
    IN  IF dotIndex > sepIndex /\ SkipLeadingDots(p, sepIndex + 1, dotIndex)
        THEN <<SubSeq(p, 1, dotIndex - 1), SubSeq(p, dotIndex, Len(p))>>
        ELSE <<p, <<>>>>

\* re.sub(r'[^a-zA-Z0-9-_\.]', '_', name)
SubUnwanted(name) ==
    [i \in DOMAIN name |->
        IF name[i] \in Range(LowerCase) \cup Range(UpperCase)
                       \cup Range(Digits) \cup {"-", "_", "."}
        THEN name[i] ELSE "_"]

\* str.strip('_')
RECURSIVE LStrip(_)
LStrip(str) ==
    IF str # <<>> /\ Head(str) = "_" THEN LStrip(Tail(str)) ELSE str
RECURSIVE RStrip(_)
RStrip(str) ==
    IF str # <<>> /\ str[Len(str)] = "_"
    THEN RStrip(SubSeq(str, 1, Len(str) - 1)) ELSE str
Strip(str) == RStrip(LStrip(str))

\* The base name without the strip of '_'.
CleanName_NoStrip(name) == Lower(SubUnwanted(name))

\* The sanitised, lower-cased base name.
CleanName(name) == Lower(Strip(SubUnwanted(name)))

\* A number as `width` decimal digits, zero-padded (strftime's %m, %d, ...).
RECURSIVE Pad(_, _)
Pad(n, width) ==
    IF width = 0 THEN <<>>
    ELSE Append(Pad(n \div 10, width - 1), Digits[(n % 10) + 1])

\* datetime.strftime('%Y%m%d%H%M%S')
strftime(now) ==
    Pad(now.Y, 4) \o Pad(now.M, 2) \o Pad(now.D, 2) \o Pad(now.h, 2)
        \o Pad(now.m, 2) \o Pad(now.s, 2)

generate_filename(filename, now, uuid) ==
    LET name == splitext(filename)[1]
        ext == splitext(filename)[2]
        unique_suffix == strftime(now) \o <<"_">> \o SubSeq(uuid, 1, 8)
    IN  CleanName(name) \o <<"_">> \o unique_suffix \o Lower(ext)

\* The characters of the filenames tried, and the filenames.
Chars == {"a", "B", "7", ".", "_", "-", " ", "/"}
FilenamesUpTo(n) == UNION {[1..k -> Chars] : k \in 0..n}

\* Readings of datetime.utcnow() and values of str(uuid.uuid4()).
UtcNows ==
    {[Y |-> 2024, M |-> 1, D |-> 5, h |-> 9, m |-> 3, s |-> 7],
     [Y |-> 2026, M |-> 11, D |-> 30, h |-> 23, m |-> 59, s |-> 59]}
Uuid4s ==
    {
     <<"1", "b", "9", "d", "6", "b", "c", "d", "-", "b", "b", "f",
       "d", "-", "4", "b", "2", "d", "-", "9", "b", "5", "d", "-",
       "a", "b", "8", "d", "f", "b", "b", "d", "4", "b", "e", "d">>,
     <<"0", "0", "c", "0", "f", "f", "e", "e", "-", "1", "2", "3",
       "4", "-", "4", "a", "b", "c", "-", "8", "d", "e", "f", "-",
       "0", "1", "2", "3", "4", "5", "6", "7", "8", "9", "a", "b">>}

Generate(now, uuid) ==
    /\ out = <<>>
    /\ out' = generate_filename(fname, now, uuid)
    /\ UNCHANGED <<fname, issued, crudVars, uploadVars>>

InitFilename ==
    /\ InitStore
    /\ InitUploads /\ local = FALSE
    /\ InitName /\ fname \in FilenamesUpTo(MaxLen)

NextFilename == \E now \in UtcNows, uuid \in Uuid4s : Generate(now, uuid)

SpecFilename == InitFilename /\ [][NextFilename]_vars

(***************************************************************************)
(* What the caller receives                                                *)
(***************************************************************************)
\* The error kind of a response: the HTTPException statuses the handlers
\* raise; an exception no handler catches leaves as a bare 500.
ErrorKind(status) ==
    CASE status = 404 -> "NotFound"
      [] status = 400 -> "UnsupportedType"
      [] status = 413 -> "PayloadTooLarge"
      [] status = 500 -> "InternalServerError"
      [] OTHER -> "none"

Doc(id) == FindOne(medicines, id)

Wrote == last.op \in {"create", "update"} /\ last.status = 200

\* The handler reaches calculate_end_date for this request body: a start
\* date and a non-zero duration, no end date.
Attempts(body) ==
    /\ body.start_date \notin {NoneStr, EmptyStr}
    /\ ~body.duration_days.none /\ body.duration_days.v # 0
    /\ body.end_date = NoneStr

(***************************************************************************)
(* C1: after a successful create_medicine or update_medicine whose input   *)
(* has a start date, a duration (any non-negative integer, 0 included) and *)
(* no end date, the stored end_date is start date + duration days.         *)
(***************************************************************************)
C1_EndDateDerived ==
    (/\ Wrote
     /\ ParsesIso(last.body.start_date)
     /\ ~last.body.duration_days.none
     /\ last.body.duration_days.v >= 0
     /\ last.body.end_date = NoneStr)
    => /\ Found(medicines, last.id)
       /\ ParsesIso(Doc(last.id).end_date)
       /\ Doc(last.id).end_date.day
             = last.body.start_date.day + last.body.duration_days.v

(***************************************************************************)
(* C2: a create_medicine or update_medicine whose input supplies a         *)
(* non-null end_date stores exactly that value.                            *)
(***************************************************************************)
C2_ExplicitEndKept ==
    (Wrote /\ last.body.end_date # NoneStr)
    => Doc(last.id).end_date = last.body.end_date

(***************************************************************************)
(* C2, amended: a create_medicine or update_medicine whose input supplies  *)
(* a non-null, non-empty end_date never raises from calculate_end_date,    *)
(* whatever start_date and duration_days are, and the record it stores has *)
(* exactly the supplied end_date.                                          *)
(***************************************************************************)
C2_NonEmptyEndKept ==
    (/\ last.op \in {"create", "update"}
     /\ last.body.end_date \notin {NoneStr, EmptyStr})
    => /\ last.exc = "none"
       /\ last.status \in {200, 404}
       /\ last.status = 200
             => /\ Found(medicines, last.id)
                /\ Doc(last.id).end_date = last.body.end_date

\* An update with an explicit end date, a duration and a start date that
\* would not parse, over a record whose end date had been derived.
C2_Witness ==
    /\ last.op = "update"
    /\ last.status = 200
    /\ last.body.end_date = DateStr(11)
    /\ last.body.start_date = BadStr
    /\ last.body.duration_days = SomeInt(2)
    /\ Doc(last.id).end_date = DateStr(11)

(***************************************************************************)
(* C3: with LOCAL_UPLOAD_ENABLED, N successful uploads leave N files in    *)
(* the uploads directory, each upload in a file of its own.                *)
(***************************************************************************)
C3_OneFilePerUpload ==
    local => Cardinality(DOMAIN files) = count.ok

(***************************************************************************)
(* C4: upload_prescription checks the content type first and the length    *)
(* second: a type outside the four allowed ones answers 400 whatever the   *)
(* size, a length above 50*1024*1024 answers 413, exactly 50*1024*1024     *)
(* passes; a rejected upload writes no file and calls no backend, an       *)
(* accepted one writes or calls exactly once.                              *)
(***************************************************************************)
C4_ValidationGate ==
    [][count'.requests = count.requests + 1 =>
        LET typeOk == upLast'.content_type \in
                          {"image/jpeg", "image/png", "image/jpg",
                           "application/pdf"}
            sizeOk == upLast'.content.size <= 52428800
            stored == count'.writes + count'.calls
                          - (count.writes + count.calls)
        IN  /\ ~typeOk => ErrorKind(upLast'.status) = "UnsupportedType"
            /\ (typeOk /\ ~sizeOk)
                   => ErrorKind(upLast'.status) = "PayloadTooLarge"
            /\ (typeOk /\ sizeOk) => upLast'.status = 200
            /\ upLast'.status # 200
                   => (stored = 0 /\ files' = files /\ drive' = drive)
            /\ upLast'.status = 200
                   => /\ stored = 1
                      /\ IF local
                         THEN /\ drive' = drive
                              /\ upLast'.filename \in DOMAIN files'
                              /\ files'[upLast'.filename] = upLast'.content
                         ELSE /\ files' = files
                              /\ Cardinality(drive') = Cardinality(drive) + 1
       ]_vars

\* An upload of exactly 50 MiB accepted after a rejected one.
C4_Witness ==
    /\ upLast.status = 200
    /\ upLast.content.size = 52428800
    /\ count.requests = 2
    /\ count.ok = 1
    /\ count.writes + count.calls = 1

(***************************************************************************)
(* C5: get_medicine, update_medicine and delete_medicine on an identifier  *)
(* that matches no record answer 404 and leave the collection unchanged;   *)
(* delete_medicine on an existing identifier removes exactly that record.  *)
(***************************************************************************)
C5_NotFoundAndDelete ==
    [][/\ (last'.op \in {"get", "update", "delete"}
           /\ ~Found(medicines, last'.id))
          => (ErrorKind(last'.status) = "NotFound" /\ medicines' = medicines)
       /\ (last'.op = "delete" /\ Found(medicines, last'.id))
          => /\ last'.status = 200
             /\ medicines' = {d \in medicines : d.id # last'.id}
             /\ Cardinality(medicines') = Cardinality(medicines) - 1]_vars

\* An update answered 404 for the identifier of a record that was deleted,
\* while the other record is still stored.
C5_Witness ==
    /\ last.op = "update"
    /\ last.status = 404
    /\ last.id \in issued
    /\ Cardinality(medicines) = 1
    /\ Cardinality(issued) = 2

(***************************************************************************)
(* C6: no request changes the id or created_at of a stored record; a       *)
(* successful update_medicine sets the record's updated_at to the current  *)
(* time and changes no other record.                                       *)
(***************************************************************************)
C6_CreatedAtImmutable ==
    [][/\ \A d \in medicines : \A e \in medicines' :
             e.id = d.id => e.created_at = d.created_at
       /\ (last'.op = "update" /\ last'.status = 200)
          => /\ Cardinality(Matching(medicines', last'.id)) = 1
             /\ Found(medicines, last'.id)
             /\ FindOne(medicines', last'.id).updated_at = clock'
             /\ {d \in medicines' : d.id # last'.id}
                   = {d \in medicines : d.id # last'.id}]_vars

\* A record updated later than it was created, beside another record.
C6_Witness ==
    /\ last.op = "update"
    /\ last.status = 200
    /\ Doc(last.id).updated_at > Doc(last.id).created_at
    /\ Cardinality(medicines) = 2

(***************************************************************************)
(* C7: a record inserted by create_medicine has created_at equal to        *)
(* updated_at and an identifier no other stored record has.                *)
(***************************************************************************)
C7_CreateStamps ==
    (last.op = "create" /\ last.status = 200)
    => /\ Doc(last.id).created_at = Doc(last.id).updated_at
       /\ Cardinality(Matching(medicines, last.id)) = 1

(***************************************************************************)
(* C8: when create_medicine or update_medicine attempts the derivation and *)
(* the start date does not parse as ISO-8601, the caller receives the      *)
(* error kind InvalidDate and the collection is left unchanged.            *)
(***************************************************************************)
C8_InvalidDateSurfaced ==
    [][(/\ last'.op \in {"create", "update"}
        /\ last'.status # 404
        /\ last'.body.start_date = BadStr
        /\ Attempts(last'.body))
       => (/\ ErrorKind(last'.status) = "InvalidDate"
           /\ medicines' = medicines)]_vars

(***************************************************************************)
(* The shape of a generated name                                           *)
(***************************************************************************)
HexChars == Range(Digits) \cup {"a", "b", "c", "d", "e", "f"}
BaseChars == Range(LowerCase) \cup Range(Digits) \cup {".", "_", "-"}

\* `result` is <base>_<14 digits>_<8 hex> followed by `ext`.
HasForm(result, ext) ==
    LET n == Len(result)
        b == n - Len(ext) - 24
        base == SubSeq(result, 1, b)
    IN  /\ b >= 0
        /\ SubSeq(result, n - Len(ext) + 1, n) = ext
        /\ result[b + 1] = "_"
        /\ \A i \in (b + 2)..(b + 15) : result[i] \in Range(Digits)
        /\ result[b + 16] = "_"
        /\ \A i \in (b + 17)..(b + 24) : result[i] \in HexChars
        /\ \A i \in 1..b : base[i] \in BaseChars
        /\ b > 0 => (base[1] # "_" /\ base[b] # "_")

\* f from its last '.' on, <<>> when f has no '.'.
FromLastDot(f) ==
    IF \E i \in DOMAIN f : f[i] = "."
    THEN SubSeq(f, CHOOSE i \in DOMAIN f :
                       f[i] = "." /\ \A j \in (i + 1)..Len(f) : f[j] # ".",
                Len(f))
    ELSE <<>>

\* os.path.splitext's extension, stated on the positions of f: f from its
\* last '.' on when that '.' comes after the last '/' and after a character
\* of that last path component that is not a '.'; <<>> otherwise.
ExtensionOf(f) ==
    IF \E i \in DOMAIN f :
           /\ f[i] = "."
           /\ \A j \in (i + 1)..Len(f) : f[j] \notin {".", "/"}
           /\ \E k \in 1..(i - 1) :
                  /\ f[k] \notin {".", "/"}
                  /\ \A j \in k..i : f[j] # "/"
    THEN FromLastDot(f)
    ELSE <<>>

(***************************************************************************)
(* C9: generate_filename(f) is <base>_<14 digits>_<8 hex><extension>, the  *)
(* extension being f from its last '.' on (empty if f has none),           *)
(* lower-cased; the base has only characters of [a-z0-9._-] and neither    *)
(* starts nor ends with '_'.                                               *)
(***************************************************************************)
C9_ExtensionFromLastDot ==
    out # <<>> => HasForm(out, Lower(FromLastDot(fname)))

(***************************************************************************)
(* C9, amended: the extension is f from its last '.' on only when that '.' *)
(* comes after the last '/' and after a character of that last path        *)
(* component that is not a '.'; otherwise the extension is empty and the   *)
(* whole of f is the base name.  The rest of the form is as claimed.       *)
(***************************************************************************)
C9_GeneratedForm ==
    out # <<>> => HasForm(out, Lower(ExtensionOf(fname)))

\* A name whose base needs replacing, stripping and lower-casing and whose
\* extension is upper-case.
C9_Witness ==
    /\ fname = <<" ", "B", ".", "B">>
    /\ out # <<>>
    /\ SubSeq(out, 1, 2) = <<"b", "_">>
    /\ SubSeq(out, Len(out) - 1, Len(out)) = <<".", "b">>

(***************************************************************************)
(* C10: under every interleaving of update_medicine with other requests    *)
(* (a delete_medicine for the same identifier among them), the update      *)
(* ends with the updated record or with NotFound, never with another       *)
(* error, and never reports success for a record that no longer exists.    *)
(***************************************************************************)
C10_UpdateOutcomes ==
    upd.pc = "done"
    => \/ upd.status = 200 /\ Found(medicines, upd.id)
       \/ ErrorKind(upd.status) = "NotFound"

====
